---- MODULE Spec2Model ----
(***************************************************************************)
(* gphotos_parallel.py: merging Google Takeout JSON sidecars into media    *)
(* files with ExifTool, one task per sidecar on a ThreadPoolExecutor.      *)
(*                                                                         *)
(* File names are sequences of segments, each either "." or "/" or a       *)
(* string holding neither, so that os.path.splitext and the f-string of    *)
(* try_get_file are computed, not assumed.  A JSON object is a record      *)
(* whose DOMAIN is the set of keys present.  Floats are integers (only     *)
(* their sign, zero test and abs are used by the code).                    *)
(*                                                                         *)
(* process_json_file (lines 125-137) keeps the indentation and the         *)
(* `continue` of the loop body it was lifted from (Python rejects the      *)
(* file as written) and reads last_dir, metadata_folder and base_dir,      *)
(* which are bound in main (lines 147-148, 159).  The model takes the      *)
(* statements in their order, binds the three names as main binds them     *)
(* and reads the `continue` as the end of the task.  The date and          *)
(* description arguments of the command line are left out of cmd_of.       *)
(***************************************************************************)
EXTENDS Integers, Sequences, FiniteSets, TLC

\* ------------------------------------------------------------- bounds
NumSidecars == 2        \* sidecar files found under the root
PoolSize == 1           \* os.cpu_count(), the executor's max_workers
GeoMax == 2             \* coordinates range over -GeoMax..GeoMax

Sidecars == 1..NumSidecars
ThreadIds == 1..NumSidecars

\* ---------------------------------------------------------- constants
EXTENSIONS == << <<".", "jpg">>, <<".", "png">>, <<".", "heic">>,
                <<".", "heif">>, <<".", "mp4">> >>

None == <<"<None>">>

Min(S) == CHOOSE m \in S : \A n \in S : m <= n
Max(S) == CHOOSE m \in S : \A n \in S : m >= n

\* ------------------------------------------------------ os.path helpers
join(dir, file) == dir \o <<"/">> \o file

basename(path) ==
    LET seps == {k \in 1..Len(path) : path[k] = "/"}
    IN  IF seps = {} THEN path ELSE SubSeq(path, Max(seps) + 1, Len(path))

\* os.path.splitext(p)[1]: from the last dot, unless only dots precede it
\* in the last path component.
splitext_ext(p) ==
    LET seps == {k \in 1..Len(p) : p[k] = "/"}
        sepIndex == IF seps = {} THEN 0 ELSE Max(seps)
        dots == {k \in 1..Len(p) : p[k] = "."}
    IN  IF dots = {} THEN <<>>
        ELSE LET dotIndex == Max(dots)
             IN  IF dotIndex > sepIndex
                    /\ \E k \in (sepIndex + 1)..(dotIndex - 1) : p[k] # "."
                 THEN SubSeq(p, dotIndex, Len(p))
                 ELSE <<>>

\* ------------------------------------------------------------- GPSData
dict_get(d, key, default) == IF key \in DOMAIN d THEN d[key] ELSE default

GPSData(geoData) ==
    [latitude  |-> dict_get(geoData, "latitude", 0),
     longitude |-> dict_get(geoData, "longitude", 0),
     altitude  |-> dict_get(geoData, "altitude", 0)]

abs(v) == IF v < 0 THEN -v ELSE v

Param(tag, value) == [tag |-> tag, value |-> value]

no_geodata_or(self) == self.latitude = 0 \/ self.longitude = 0

no_geodata(self) == self.latitude = 0 /\ self.longitude = 0

to_params(self) ==
    IF no_geodata(self) THEN <<>>
    ELSE << Param("-GPSLatitude=", abs(self.latitude)),
            Param("-GPSLatitudeRef=", IF self.latitude >= 0 THEN "N" ELSE "S"),
            Param("-GPSLongitude=", abs(self.longitude)),
            Param("-GPSLongitudeRef=", IF self.longitude >= 0 THEN "E" ELSE "W") >>
         \o (IF self.altitude # 0
             THEN << Param("-GPSAltitude=", abs(self.altitude)),
                     Param("-GPSAltitude=", abs(self.altitude)) >>
             ELSE <<>>)

\* -------------------------------------------------------- try_get_file
Returned(path, probes) ==
    [ok |-> TRUE, path |-> path, error |-> "", probes |-> probes]

Raised(error, path, probes) ==
    [ok |-> FALSE, path |-> path, error |-> error, probes |-> probes]

\* line 100: f"{file}.{file_ext}" with file_ext an entry of EXTENSIONS
candidate(dir, file, k) == join(dir, file \o <<".">> \o EXTENSIONS[k])

probe_extensions(files, dir, file) ==
    LET hits == {k \in 1..Len(EXTENSIONS) : candidate(dir, file, k) \in files}
    IN  IF hits # {}
        THEN Returned(candidate(dir, file, Min(hits)),
                      [k \in 1..Min(hits) |-> candidate(dir, file, k)])
        ELSE Raised("Could not find any extension for file", join(dir, file),
                    [k \in 1..Len(EXTENSIONS) |-> candidate(dir, file, k)])

try_get_file_fallback(files, dir, file) ==
    IF splitext_ext(file) # <<>> /\ join(dir, file) \in files
    THEN Returned(join(dir, file), <<join(dir, file)>>)
    ELSE probe_extensions(files, dir, file)

try_get_file(files, dir, file) ==
    IF splitext_ext(file) # <<>>
    THEN IF join(dir, file) \notin files
         THEN Raised("File not found", join(dir, file), <<join(dir, file)>>)
         ELSE Returned(join(dir, file), <<join(dir, file)>>)
    ELSE probe_extensions(files, dir, file)

\* ------------------------------------------------- the run's environment
base_dir == <<"takeout">>
album_dir == join(base_dir, <<"album">>)

\* The media files on disk, and those ExifTool cannot write (it exits 1).
MediaFiles == { join(album_dir, <<"foo", ".", "jpg">>),
                join(album_dir, <<"bad", ".", "jpg">>) }
CorruptMedia == { join(album_dir, <<"bad", ".", "jpg">>) }

ExifToolExit(path) == IF path \in CorruptMedia THEN 1 ELSE 0

\* What a sidecar file may hold: text json.load rejects, or a JSON object.
Json(metadata) == [valid |-> TRUE, metadata |-> metadata]
Contents ==
    { [valid |-> FALSE, metadata |-> <<>>],
      Json([description |-> "album"]),
      Json([title |-> <<"album">>]),
      Json([title |-> <<>>]),
      Json([title |-> <<"foo", ".", "jpg">>,
            geoData |-> [latitude |-> -1, longitude |-> 2, altitude |-> 1]]),
      Json([title |-> <<"bad", ".", "jpg">>]),
      Json([title |-> <<"gone", ".", "jpg">>]) }

\* Values of the -m option: not given, given empty, given a directory.
MetadataArgs == { None, <<>>, <<"meta">> }

\* main, lines 157-164: every *.json under base_dir, once, as (dir, file).
json_files == [i \in Sidecars |-> <<album_dir, <<ToString(i), ".", "json">> >>]

VARIABLES
    args_metadata,   \* args.metadata
    content,         \* content[i]: what sidecar file i holds
    sidecar_path,    \* sidecar_path[i]: where sidecar file i is on disk
    main_pc,         \* main's position
    executions,      \* the futures submitted so far, as sidecar indices
    yielded,         \* futures as_completed has yielded
    queue,           \* the executor's work queue
    threads,         \* the executor's worker threads
    running,         \* running[t]: the task thread t executes, 0 when idle
    task_pc,         \* task_pc[i]: position of task i
    fut_exc,         \* fut_exc[i]: the exception the future of i holds, or ""
    n_started,       \* n_started[i]: times a worker began task i
    probed,          \* probed[i]: paths try_get_file tested for task i
    tool_calls,      \* tool_calls[i]: subprocess.run calls of task i
    exit_status,     \* exit_status[i]: ExifTool's exit status, -1 before
    tool_cmd,        \* tool_cmd[i]: the command line of task i
    stdout,          \* the lines printed
    res_in, res_out, \* try_get_file applied on its own
    geo_in, geo_out  \* GPSData.to_params applied on its own

bvars == <<args_metadata, content, sidecar_path, main_pc, executions, yielded,
           queue, threads, running, task_pc, fut_exc, n_started, probed,
           tool_calls, exit_status, tool_cmd, stdout>>
pvars == <<res_in, res_out, geo_in, geo_out>>
vars == <<bvars, pvars>>

\* main, lines 147-148 and 159, as process_json_file reads them
metadata_folder == args_metadata
max_workers == PoolSize
dir_of(i) == json_files[i][1]
last_dir(i) == basename(dir_of(i))
metadata_fullpath(i) == join(dir_of(i), json_files[i][2])

Line(text, path, task) == [text |-> text, path |-> path, task |-> task]

PureIdle ==
    /\ res_in = [title |-> <<>>, files |-> {}]
    /\ res_out = <<>>
    /\ geo_in = <<>>
    /\ geo_out = [called |-> FALSE, params |-> <<>>]

BatchStart ==
    /\ sidecar_path = [i \in Sidecars |-> metadata_fullpath(i)]
    /\ main_pc = "args"
    /\ executions = <<>>
    /\ yielded = {}
    /\ queue = <<>>
    /\ threads = {}
    /\ running = [t \in ThreadIds |-> 0]
    /\ task_pc = [i \in Sidecars |-> "unsubmitted"]
    /\ fut_exc = [i \in Sidecars |-> ""]
    /\ n_started = [i \in Sidecars |-> 0]
    /\ probed = [i \in Sidecars |-> <<>>]
    /\ tool_calls = [i \in Sidecars |-> 0]
    /\ exit_status = [i \in Sidecars |-> -1]
    /\ tool_cmd = [i \in Sidecars |-> <<>>]
    /\ stdout = {}

Init ==
    /\ args_metadata \in MetadataArgs
    /\ content \in [Sidecars -> Contents]
    /\ BatchStart
    /\ PureIdle

\* main, lines 147-156: args.metadata.rstrip raises when -m was not given
ParseArgs ==
    /\ main_pc = "args"
    /\ main_pc' = IF args_metadata = None THEN "crashed" ELSE "submit"
    /\ UNCHANGED <<args_metadata, content, sidecar_path, executions, yielded,
                   queue, threads, running, task_pc, fut_exc, n_started,
                   probed, tool_calls, exit_status, tool_cmd, stdout, pvars>>

\* ThreadPoolExecutor._adjust_thread_count: a new thread while fewer than
\* max_workers exist.
spawn_uncapped(ths) == ths \cup {Cardinality(ths) + 1}

spawn(ths) ==
    IF Cardinality(ths) < max_workers THEN ths \cup {Cardinality(ths) + 1}
    ELSE ths

\* main, line 166: executor.submit(process_json_file, ...) for one sidecar
Submit ==
    /\ main_pc = "submit"
    /\ LET k == Len(executions) + 1
       IN  /\ executions' = Append(executions, k)
           /\ queue' = Append(queue, k)
           /\ task_pc' = [task_pc EXCEPT ![k] = "queued"]
           /\ threads' = spawn(threads)
           /\ main_pc' = IF k = NumSidecars THEN "collect" ELSE "submit"
    /\ UNCHANGED <<args_metadata, content, sidecar_path, yielded, running,
                   fut_exc, n_started, probed, tool_calls, exit_status,
                   tool_cmd, stdout, pvars>>

\* process_json_file, line 130
skips_only_none(title, i) == title = None

skips(title, i) == title = None \/ title = last_dir(i)

title_of(i) == dict_get(content[i].metadata, "title", None)
resolution(i) == try_get_file(MediaFiles, dir_of(i), title_of(i))

\* A worker thread takes the next work item and runs process_json_file up
\* to its first blocking call: json.load, the title test, try_get_file.
Take(t) ==
    /\ t \in threads
    /\ running[t] = 0
    /\ queue # <<>>
    /\ LET i == Head(queue)
       IN  /\ queue' = Tail(queue)
           /\ n_started' = [n_started EXCEPT ![i] = @ + 1]
           /\ IF ~content[i].valid
              THEN /\ task_pc' = [task_pc EXCEPT ![i] = "done"]
                   /\ fut_exc' = [fut_exc EXCEPT ![i] = "JSONDecodeError"]
                   /\ UNCHANGED <<running, probed, stdout>>
              ELSE IF skips(title_of(i), i)
              THEN /\ task_pc' = [task_pc EXCEPT ![i] = "done"]
                   /\ UNCHANGED <<running, fut_exc, probed, stdout>>
              ELSE /\ running' = [running EXCEPT ![t] = i]
                   /\ probed' = [probed EXCEPT ![i] = resolution(i).probes]
                   /\ task_pc' = [task_pc EXCEPT ![i] =
                                    IF resolution(i).ok THEN "tool" ELSE "move"]
                   /\ stdout' = IF resolution(i).ok THEN stdout
                                ELSE stdout \cup {Line(resolution(i).error,
                                                       resolution(i).path, i)}
                   /\ UNCHANGED fut_exc
    /\ UNCHANGED <<args_metadata, content, sidecar_path, main_pc, executions,
                   yielded, threads, tool_calls, exit_status, tool_cmd, pvars>>

\* add_media_metadata, lines 113-122
cmd_of(i) ==
    <<"exiftool", "-overwrite_original">>
    \o to_params(GPSData(dict_get(content[i].metadata, "geoData", <<>>)))
    \o <<resolution(i).path>>

\* subprocess.run, with a failure of the tool cancelling the queued work
RunToolFailFast(t) ==
    /\ t \in threads
    /\ running[t] # 0
    /\ LET i == running[t]
       IN  /\ task_pc[i] = "tool"
           /\ tool_calls' = [tool_calls EXCEPT ![i] = @ + 1]
           /\ exit_status' = [exit_status EXCEPT ![i] =
                                ExifToolExit(resolution(i).path)]
           /\ tool_cmd' = [tool_cmd EXCEPT ![i] = cmd_of(i)]
           /\ task_pc' = [j \in Sidecars |->
                            IF j = i THEN "move"
                            ELSE IF ExifToolExit(resolution(i).path) # 0
                                    /\ task_pc[j] = "queued"
                                 THEN "done" ELSE task_pc[j]]
           /\ queue' = IF ExifToolExit(resolution(i).path) # 0
                       THEN <<>> ELSE queue
    /\ UNCHANGED <<args_metadata, content, sidecar_path, main_pc, executions,
                   yielded, threads, running, fut_exc, n_started, probed,
                   stdout, pvars>>

\* add_media_metadata, line 122: subprocess.run blocks until ExifTool exits;
\* its return value is dropped.
RunTool(t) ==
    /\ t \in threads
    /\ running[t] # 0
    /\ LET i == running[t]
       IN  /\ task_pc[i] = "tool"
           /\ tool_calls' = [tool_calls EXCEPT ![i] = @ + 1]
           /\ exit_status' = [exit_status EXCEPT ![i] =
                                ExifToolExit(resolution(i).path)]
           /\ tool_cmd' = [tool_cmd EXCEPT ![i] = cmd_of(i)]
           /\ task_pc' = [task_pc EXCEPT ![i] = "move"]
    /\ UNCHANGED <<args_metadata, content, sidecar_path, main_pc, executions,
                   yielded, queue, threads, running, fut_exc, n_started,
                   probed, stdout, pvars>>

\* process_json_file, line 135
new_metadata_path(i) ==
    join(metadata_folder,
         SubSeq(metadata_fullpath(i), Len(base_dir) + 2,
                Len(metadata_fullpath(i))))

\* process_json_file, lines 134-137, and the end of the task
Move(t) ==
    /\ t \in threads
    /\ running[t] # 0
    /\ LET i == running[t]
       IN  /\ task_pc[i] = "move"
           /\ task_pc' = [task_pc EXCEPT ![i] = "done"]
           /\ \/ /\ metadata_folder = <<>>
                 /\ UNCHANGED <<sidecar_path, fut_exc>>
              \/ /\ metadata_folder # <<>>
                 /\ sidecar_path' = [sidecar_path EXCEPT
                                       ![i] = new_metadata_path(i)]
                 /\ UNCHANGED fut_exc
              \/ /\ metadata_folder # <<>>
                 /\ fut_exc' = [fut_exc EXCEPT ![i] = "OSError"]
                 /\ UNCHANGED sidecar_path
    /\ running' = [running EXCEPT ![t] = 0]
    /\ UNCHANGED <<args_metadata, content, main_pc, executions, yielded,
                   queue, threads, n_started, probed, tool_calls, exit_status,
                   tool_cmd, stdout, pvars>>

\* process_json_file has no return statement: its future's result is None.
future_result(i) == None

\* main, lines 167-170: as_completed yields a finished future; result()
\* raises the exception the future holds.
Collect(i) ==
    /\ main_pc = "collect"
    /\ task_pc[i] = "done"
    /\ i \notin yielded
    /\ yielded' = yielded \cup {i}
    /\ IF fut_exc[i] # ""
       THEN /\ main_pc' = "unwind"
            /\ UNCHANGED stdout
       ELSE /\ main_pc' = "collect"
            /\ stdout' = IF future_result(i) # None
                         THEN stdout \cup {Line("[!]", future_result(i), i)}
                         ELSE stdout
    /\ UNCHANGED <<args_metadata, content, sidecar_path, executions, queue,
                   threads, running, task_pc, fut_exc, n_started, probed,
                   tool_calls, exit_status, tool_cmd, pvars>>

AllDone == \A i \in Sidecars : task_pc[i] = "done"

\* main, lines 165 and 172: leaving the with block waits for the workers
\* (shutdown(wait=True)), then "[+] Done" is printed.
Finish ==
    /\ main_pc = "collect"
    /\ yielded = Sidecars
    /\ AllDone
    /\ main_pc' = "done"
    /\ stdout' = stdout \cup {Line("[+] Done", <<>>, 0)}
    /\ UNCHANGED <<args_metadata, content, sidecar_path, executions, yielded,
                   queue, threads, running, task_pc, fut_exc, n_started,
                   probed, tool_calls, exit_status, tool_cmd, pvars>>

\* main, line 168 raising: the with block still waits for every task, then
\* the exception leaves main.
Unwind ==
    /\ main_pc = "unwind"
    /\ AllDone
    /\ main_pc' = "crashed"
    /\ UNCHANGED <<args_metadata, content, sidecar_path, executions, yielded,
                   queue, threads, running, task_pc, fut_exc, n_started,
                   probed, tool_calls, exit_status, tool_cmd, stdout, pvars>>

Worker(t) == Take(t) \/ RunTool(t) \/ Move(t)

Next ==
    \/ ParseArgs
    \/ Submit
    \/ \E t \in ThreadIds : Take(t)
    \/ \E t \in ThreadIds : RunTool(t)
    \/ \E t \in ThreadIds : Move(t)
    \/ \E i \in Sidecars : Collect(i)
    \/ Finish
    \/ Unwind

Spec == Init /\ [][Next]_vars

\* The scheduler runs every worker thread and lets main go on submitting,
\* and ExifTool exits.
FairSpec ==
    /\ Spec
    /\ \A t \in ThreadIds : WF_vars(Worker(t))
    /\ WF_vars(Submit)

\* ------------------------------------------- try_get_file on its own
ResolveTitles ==
    { <<"foo">>, <<"foo", ".", "jpg">>, <<"foo", ".", "png">>, <<>>,
      <<".", "foo">>, <<"foo", ".">> }

ResolveUniverse ==
    { join(album_dir, <<"foo", ".", "jpg">>),
      join(album_dir, <<"foo", ".", "png">>),
      join(album_dir, <<"foo", ".", "heic">>),
      join(album_dir, <<"foo", ".", ".", "png">>),
      join(album_dir, <<"foo", ".", ".", "heic">>),
      join(album_dir, <<"foo">>) }

BatchIdle ==
    /\ args_metadata = None
    /\ content = [i \in Sidecars |-> [valid |-> FALSE, metadata |-> <<>>]]
    /\ BatchStart

ResolveInit ==
    /\ res_in \in [title : ResolveTitles, files : SUBSET ResolveUniverse]
    /\ res_out = <<>>
    /\ geo_in = <<>>
    /\ geo_out = [called |-> FALSE, params |-> <<>>]
    /\ BatchIdle

CallTryGetFile ==
    /\ res_out = <<>>
    /\ res_out' = try_get_file(res_in.files, album_dir, res_in.title)
    /\ UNCHANGED <<res_in, geo_in, geo_out, bvars>>

ResolveSpec == ResolveInit /\ [][CallTryGetFile]_vars

\* --------------------------------------- GPSData.to_params on its own
GeoKeys == {"latitude", "longitude", "altitude"}
GeoInputs == UNION { [keys -> (-GeoMax)..GeoMax] : keys \in SUBSET GeoKeys }

GeoInit ==
    /\ geo_in \in GeoInputs
    /\ geo_out = [called |-> FALSE, params |-> <<>>]
    /\ res_in = [title |-> <<>>, files |-> {}]
    /\ res_out = <<>>
    /\ BatchIdle

CallToParams ==
    /\ ~geo_out.called
    /\ geo_out' = [called |-> TRUE, params |-> to_params(GPSData(geo_in))]
    /\ UNCHANGED <<geo_in, res_in, res_out, bvars>>

GeoSpec == GeoInit /\ [][CallToParams]_vars

\* =============================================================== claims
original_path(i) == sidecar_path[i] = metadata_fullpath(i)
resolution_failed(i) == probed[i] # <<>> /\ ~resolution(i).ok
reported(i) == \E l \in stdout : l.task = i
DoneLine == Line("[+] Done", <<>>, 0)

\* C1: a sidecar is moved to the relocation directory only after ExifTool
\* was invoked for it and exited 0; a sidecar whose resolution failed or
\* whose invocation exited non-zero is at its original path when the batch
\* has ended.
C1_MovedOnlyAfterSuccess ==
    \A i \in Sidecars :
        /\ ~original_path(i) => tool_calls[i] >= 1 /\ exit_status[i] = 0
        /\ main_pc \in {"done", "crashed"}
           /\ (resolution_failed(i) \/ exit_status[i] > 0)
           => original_path(i)

would_succeed(j) ==
    /\ content[j].valid
    /\ ~skips(title_of(j), j)
    /\ resolution(j).ok
    /\ ExifToolExit(resolution(j).path) = 0

task_failed(i) == exit_status[i] > 0 \/ fut_exc[i] # ""

C3_FailureCaughtAtTaskBoundary ==
    /\ main_pc # "unwind"
    /\ \A i \in yielded : ~content[i].valid => reported(i)

\* C5 as stated: a sidecar whose title is empty or equals the name of its
\* directory is skipped: no resolution is attempted, the tool is not
\* invoked, the sidecar is not moved and no failure is reported for it.
untouched(i) ==
    /\ probed[i] = <<>>
    /\ tool_calls[i] = 0
    /\ original_path(i)
    /\ ~reported(i)
    /\ fut_exc[i] = ""
    /\ task_pc[i] \in {"unsubmitted", "queued", "done"}

has_extension(title) ==
    \E d \in 1..Len(title) :
        /\ title[d] = "."
        /\ \E k \in 1..(d - 1) : title[k] # "."

\* C6: for an extensionless title T, resolution returns D/T.<ext> for the
\* first extension of the priority list for which that file exists, and
\* fails with "no matching extension" only when there is none.
C6_FirstExistingExtensionWins ==
    res_out # <<>> /\ ~has_extension(res_in.title) =>
        LET named(k) == join(album_dir,
                             res_in.title \o <<".">> \o Tail(EXTENSIONS[k]))
            present == {k \in 1..Len(EXTENSIONS) : named(k) \in res_in.files}
        IN  IF present # {}
            THEN res_out.ok /\ res_out.path = named(Min(present))
            ELSE ~res_out.ok
                 /\ res_out.error = "Could not find any extension for file"

\* C7: for a title with an extension, resolution tests only directory/title:
\* it returns that path when the file exists and otherwise fails with
\* "file not found", whatever other files share the stem.
C7_ExactPathOnly ==
    res_out # <<>> /\ has_extension(res_in.title) =>
        LET exact == join(album_dir, res_in.title)
        IN  /\ res_out.probes = <<exact>>
            /\ IF exact \in res_in.files
               THEN res_out.ok /\ res_out.path = exact
               ELSE ~res_out.ok /\ res_out.error = "File not found"

C7_Witness ==
    /\ res_out # <<>>
    /\ res_in.title = <<"foo", ".", "jpg">>
    /\ join(album_dir, <<"foo", ".", "jpg">>) \notin res_in.files
    /\ join(album_dir, <<"foo", ".", "png">>) \in res_in.files
    /\ ~res_out.ok
    /\ res_out.error = "File not found"

\* C8: the tool is invoked at most once per sidecar, and when the batch has
\* ended every invocation that exited non-zero has its failure in the
\* reported errors.
C8_ToolFailureReported ==
    \A i \in Sidecars :
        /\ tool_calls[i] <= 1
        /\ main_pc = "done" /\ exit_status[i] > 0 => reported(i)

\* C9: with latitude and longitude both 0 no geolocation argument is
\* emitted, whatever the altitude; otherwise latitude, latitude reference,
\* longitude, longitude reference are emitted in that order, followed by
\* altitude arguments exactly when the altitude is not 0.
C9_GeoArguments ==
    geo_out.called =>
        LET lat == dict_get(geo_in, "latitude", 0)
            lon == dict_get(geo_in, "longitude", 0)
            alt == dict_get(geo_in, "altitude", 0)
            p == geo_out.params
        IN  IF lat = 0 /\ lon = 0 THEN p = <<>>
            ELSE /\ Len(p) >= 4
                 /\ p[1].tag = "-GPSLatitude="
                 /\ p[2].tag = "-GPSLatitudeRef="
                 /\ p[3].tag = "-GPSLongitude="
                 /\ p[4].tag = "-GPSLongitudeRef="
                 /\ (alt # 0 <=> Len(p) > 4)
                 /\ \A k \in 5..Len(p) : p[k].tag = "-GPSAltitude="

C9_Witness ==
    /\ geo_out.called
    /\ DOMAIN geo_in = GeoKeys
    /\ geo_in.latitude = 0 /\ geo_in.longitude = 0 /\ geo_in.altitude # 0
    /\ geo_out.params = <<>>

====
